---- MODULE Spec2Model ----
(***************************************************************************)
(* The two-pass RV32I assembler of assembler/src/assembler.rs:             *)
(* parse_labels (first pass), assemble_ir (one source line) and            *)
(* assemble_program (the driver loop).                                     *)
(*                                                                         *)
(* A source line is modelled by the token sequence tokenize! yields for    *)
(* it; a program is a sequence of such lines (program.split('\n')).        *)
(* Token indices in the operators below are the source's 0-based indices;  *)
(* Tok(ts, k) is ts[k] of the source.                                      *)
(*                                                                         *)
(* An encoded word is modelled by its bit fields (opcode, rd, rs1, rs2,    *)
(* immediate field), not by the packed 32-bit number; func3 and func7 are  *)
(* functions of the mnemonic alone and are left out.  pc is a u32 in the   *)
(* source; the programs explored here are far too short for it to wrap,    *)
(* and label - pc is kept as the signed difference the encoders mask.      *)
(*                                                                         *)
(* match_opcode, match_register, parse_imm, transform_psuedo_ir and the    *)
(* encode_*! macros live outside assembler.rs; they are modelled from the  *)
(* written specification of the assembler.                                 *)
(***************************************************************************)
EXTENDS Integers, Sequences, FiniteSets, TLC

\* ------------------------------------------------------------------ bounds

\* Longest program explored, in lines.
MaxLines == 3

\* Longest single line explored by SpecIr, in tokens.
MaxTokens == 6

\* ------------------------------------------------------- constants and tags

OPCODE_ARITHMETIC_IMM == "OPCODE_ARITHMETIC_IMM"
OPCODE_JALR == "OPCODE_JALR"
OPCODE_LOAD == "OPCODE_LOAD"
OPCODE_ARITHMETIC == "OPCODE_ARITHMETIC"
OPCODE_JAL == "OPCODE_JAL"
OPCODE_LUI == "OPCODE_LUI"
OPCODE_AUIPC == "OPCODE_AUIPC"
OPCODE_BRANCH == "OPCODE_BRANCH"
OPCODE_STORE == "OPCODE_STORE"

\* enum InstructionFormat
Itype == "Itype"
Rtype == "Rtype"
Jtype == "Jtype"
Utype == "Utype"
Stype == "Stype"
Btype == "Btype"

\* The format of an opcode (the match on opcode in assemble_ir).
FormatOf(opcode) ==
  IF opcode \in {OPCODE_ARITHMETIC_IMM, OPCODE_JALR, OPCODE_LOAD} THEN Itype
  ELSE IF opcode = OPCODE_ARITHMETIC THEN Rtype
  ELSE IF opcode = OPCODE_JAL THEN Jtype
  ELSE IF opcode \in {OPCODE_LUI, OPCODE_AUIPC} THEN Utype
  ELSE IF opcode = OPCODE_BRANCH THEN Btype
  ELSE Stype

\* ------------------------------------------------------------ token helpers

\* ts[k] of the source (0-based).
Tok(ts, k) == ts[k + 1]

\* Label-definition tokens and the name strip_suffix(':') leaves.
LabelDefs == [t \in {"loop:", "end:"} |-> IF t = "loop:" THEN "loop" ELSE "end"]

\* token.ends_with(':')
EndsWithColon(t) == t \in DOMAIN LabelDefs

\* token.strip_suffix(':').unwrap()
StripSuffix(t) == LabelDefs[t]

\* ---------------------------------------------------- lookups (parse module)

\* Result<T, AssemblerError>
Ok(v) == [ok |-> TRUE, val |-> v, err |-> "none"]
Err(why) == [ok |-> FALSE, val |-> 0, err |-> why]

\* match_opcode: mnemonic -> opcode, or the unknown-mnemonic error.
match_opcode(op) ==
  CASE op = "add" -> Ok(OPCODE_ARITHMETIC)
    [] op = "addi" -> Ok(OPCODE_ARITHMETIC_IMM)
    [] op = "lw" -> Ok(OPCODE_LOAD)
    [] op = "jalr" -> Ok(OPCODE_JALR)
    [] op = "jal" -> Ok(OPCODE_JAL)
    [] op = "lui" -> Ok(OPCODE_LUI)
    [] op = "auipc" -> Ok(OPCODE_AUIPC)
    [] op = "bne" -> Ok(OPCODE_BRANCH)
    [] op = "sw" -> Ok(OPCODE_STORE)
    [] OTHER -> Err("UnknownMnemonicError")

\* match_register: register name -> index, or the unknown-register error.
match_register(reg) ==
  CASE reg = "x0" -> Ok(0)
    [] reg = "x1" -> Ok(1)
    [] reg = "x2" -> Ok(2)
    [] OTHER -> Err("UnknownRegisterError")

\* The integer a numeric literal token denotes.
NumLit ==
  [t \in {"0", "4", "5", "-1", "2047", "2048"} |->
     CASE t = "0" -> 0
       [] t = "4" -> 4
       [] t = "5" -> 5
       [] t = "-1" -> -1
       [] t = "2047" -> 2047
       [] t = "2048" -> 2048]

\* parse_imm(token, labels, pc): a literal as it is; otherwise the token is a
\* label name, resolved relative to pc; an unknown name is an error.
parse_imm(s, labels, pc) ==
  IF s \in DOMAIN NumLit THEN Ok(NumLit[s])
  ELSE IF s \in DOMAIN labels THEN Ok(labels[s] - pc)
  ELSE Err("UndefinedLabelError")

\* transform_psuedo_ir: recognized pseudo forms are rewritten, every other
\* token sequence passes through unchanged.  nop is a one-word rewrite, call a
\* two-word rewrite that carries its label operand into both words.
transform_psuedo_ir(tokens) ==
  IF Tok(tokens, 0) = "nop" /\ Len(tokens) = 1
    THEN Ok(<< <<"addi", "x0", "x0", "0">> >>)
  ELSE IF Tok(tokens, 0) = "call" /\ Len(tokens) = 2
    THEN Ok(<< <<"auipc", "x1", Tok(tokens, 1)>>, <<"jal", "x1", Tok(tokens, 1)>> >>)
  ELSE Ok(<<tokens>>)

\* encode_*_imm!: the immediate field of the word, the value masked to the
\* field's width (12 bits I/S, 13 bits B, 20 bits U, 21 bits J).
encode_imm(format, imm) ==
  CASE format = Itype -> imm % 4096
    [] format = Stype -> imm % 4096
    [] format = Btype -> imm % 8192
    [] format = Utype -> imm % 1048576
    [] format = Jtype -> imm % 2097152
    [] OTHER -> 0

\* ------------------------------------------- one base instruction (the for body)

\* Token index of the rd operand.
RdIndex(opcode) == 1

\* Token index of the rs1 operand.
Rs1Index(opcode) ==
  IF opcode = OPCODE_LOAD THEN 3
  ELSE IF opcode = OPCODE_BRANCH THEN 1
  ELSE 2

\* Token index of the rs2 operand.
Rs2Index(opcode) ==
  IF opcode = OPCODE_STORE THEN 1
  ELSE IF opcode = OPCODE_BRANCH THEN 2
  ELSE 3

\* Token index of the immediate operand.
ImmIndex(format, opcode) ==
  CASE format = Itype -> (IF opcode = OPCODE_LOAD THEN 2 ELSE 3)
    [] format = Utype -> 2
    [] format = Jtype -> 2
    [] format = Btype -> 3
    [] format = Stype -> 2

\* Mutant of ImmOf: the immediate is resolved against the next instruction's pc.
ImmOf_NextPc(tok, labels, pc) == parse_imm(tok, labels, pc + 4)

\* The parse_imm call of the format match: the operand token, the label table
\* and the current value of *pc.
ImmOf(tok, labels, pc) == parse_imm(tok, labels, pc)

\* The locals of one iteration of `for ir_tokens in base_instructions`:
\* status is "ok" while the iteration runs on, "err" once it has returned an
\* AssemblerError, "panic" once a token index was out of bounds.  reads lists
\* the operand reads made so far, the failing one included; word holds the
\* fields or-ed into ir so far.
Entry(ir_tokens, pc, opc) ==
  [status |-> IF opc.ok THEN "ok" ELSE "err",
   err |-> opc.err,
   tokens |-> ir_tokens,
   opcode |-> IF opc.ok THEN opc.val ELSE "none",
   format |-> IF opc.ok THEN FormatOf(opc.val) ELSE "none",
   reads |-> <<>>,
   hasImm |-> FALSE,
   imm |-> 0,
   pc |-> pc,
   word |-> [opcode |-> IF opc.ok THEN opc.val ELSE "none",
             rd |-> 0, rs1 |-> 0, rs2 |-> 0, imm |-> 0]]

\* let opcode = match_opcode(op); ir |= encode_opcode!(opcode); let format = ...
Begin(ir_tokens, pc) == Entry(ir_tokens, pc, match_opcode(Tok(ir_tokens, 0)))

\* The outcome v of looking up operand f, read from token idx: an Err returns,
\* an Ok value is or-ed into the word.
Store(e, f, idx, v) ==
  IF ~v.ok
    THEN [e EXCEPT !.status = "err", !.err = v.err,
                   !.reads = Append(@, [f |-> f, idx |-> idx])]
  ELSE IF f = "imm"
    THEN [e EXCEPT !.reads = Append(@, [f |-> f, idx |-> idx]),
                   !.hasImm = TRUE, !.imm = v.val,
                   !.word.imm = encode_imm(e.format, v.val)]
  ELSE [e EXCEPT !.reads = Append(@, [f |-> f, idx |-> idx]),
                 !.word[f] = v.val]

\* &ir_tokens[idx] handed to match_register or parse_imm: indexing past the
\* tokens panics.
ReadOperand(e, labels, f, idx) ==
  IF e.status # "ok" THEN e
  ELSE IF idx >= Len(e.tokens)
    THEN [e EXCEPT !.status = "panic",
                   !.reads = Append(@, [f |-> f, idx |-> idx])]
  ELSE Store(e, f, idx,
             IF f = "imm" THEN ImmOf(Tok(e.tokens, idx), labels, e.pc)
             ELSE match_register(Tok(e.tokens, idx)))

\* Use the destination register field.
ReadRd(e, labels) ==
  IF e.format \in {Rtype, Itype, Utype}
    THEN ReadOperand(e, labels, "rd", RdIndex(e.opcode))
    ELSE e

\* Use the first register operand and func3 fields.
ReadRs1(e, labels) ==
  IF e.format \in {Itype, Rtype, Btype, Stype}
    THEN ReadOperand(e, labels, "rs1", Rs1Index(e.opcode))
    ELSE e

\* Use the second register operand field.
ReadRs2(e, labels) ==
  IF e.format \in {Rtype, Stype, Btype}
    THEN ReadOperand(e, labels, "rs2", Rs2Index(e.opcode))
    ELSE e

\* match format { ... }: the immediate of every format but R.
ReadImm(e, labels) ==
  IF e.format \in {Itype, Utype, Jtype, Btype, Stype}
    THEN ReadOperand(e, labels, "imm", ImmIndex(e.format, e.opcode))
    ELSE e

\* One iteration of the for loop up to binaries.push, in the source's order.
EncodeIr(ir_tokens, labels, pc) ==
  ReadImm(ReadRs2(ReadRs1(ReadRd(Begin(ir_tokens, pc), labels), labels), labels), labels)

\* ------------------------------------------------------------- assemble_ir

\* What assemble_ir hands back: Ok(words) or Err(err) (or a panic), the value
\* it leaves in *pc, and the per-word record of what it encoded.
IrResult(status, err, words, pc, trace) ==
  [status |-> status, err |-> err, words |-> words, pc |-> pc, trace |-> trace]

\* Mutant of NextPc: pc is not advanced after a word.
NextPc_Stuck(pc) == pc

\* *pc += 4
NextPc(pc) == pc + 4

RECURSIVE EncodeAll(_, _, _, _, _)
\* The end of one iteration, e its outcome: the word is pushed and pc
\* advanced, or the call ends with e's failure.
Push(base_instructions, labels, pc, binaries, trace, e) ==
  IF e.status = "ok"
    THEN EncodeAll(Tail(base_instructions), labels, NextPc(pc),
                   Append(binaries, e.word), Append(trace, e))
    ELSE IrResult(e.status, e.err, <<>>, pc, Append(trace, e))

\* The for loop over base_instructions: each word is encoded at the current
\* pc; Ok(binaries) after the last one.
EncodeAll(base_instructions, labels, pc, binaries, trace) ==
  IF base_instructions = <<>> THEN IrResult("ok", "none", binaries, pc, trace)
  ELSE Push(base_instructions, labels, pc, binaries, trace,
            EncodeIr(Head(base_instructions), labels, pc))

\* line_tokens with a leading label-definition token removed.
StripLabel(line_tokens) ==
  IF EndsWithColon(Tok(line_tokens, 0)) THEN Tail(line_tokens) ELSE line_tokens

\* if let Err(why) = base_instructions { return Err(why) }, then the loop.
Expanded(base_instructions, labels, pc) ==
  IF ~base_instructions.ok
    THEN IrResult("err", base_instructions.err, <<>>, pc, <<>>)
    ELSE EncodeAll(base_instructions.val, labels, pc, <<>>, <<>>)

\* assemble_ir from the second is_empty check on: expansion, then the loop.
AssembleStripped(line_tokens, labels, pc) ==
  IF line_tokens = <<>> THEN IrResult("ok", "none", <<>>, pc, <<>>)
  ELSE Expanded(transform_psuedo_ir(line_tokens), labels, pc)

\* Mutant of assemble_ir: the token count is taken after the label is stripped.
assemble_ir_CountAfterStrip(line_tokens, labels, pc) ==
  IF line_tokens = <<>> THEN IrResult("ok", "none", <<>>, pc, <<>>)
  ELSE IF Len(StripLabel(line_tokens)) > 5
    THEN IrResult("err", "TooManyTokensError", <<>>, pc, <<>>)
  ELSE AssembleStripped(StripLabel(line_tokens), labels, pc)

\* assemble_ir(ir_string, labels, pc), on the tokens of ir_string.
assemble_ir(line_tokens, labels, pc) ==
  IF line_tokens = <<>> THEN IrResult("ok", "none", <<>>, pc, <<>>)
  ELSE IF Len(line_tokens) > 5
    THEN IrResult("err", "TooManyTokensError", <<>>, pc, <<>>)
  ELSE AssembleStripped(StripLabel(line_tokens), labels, pc)

\* ------------------------------------------------------------ parse_labels

\* HashMap::new()
EmptyLabels == [n \in {} |-> 0]

\* labels.insert(name, addr)
Insert(labels, name, addr) ==
  [n \in DOMAIN labels \cup {name} |-> IF n = name THEN addr ELSE labels[n]]

\* Mutant of ParseLabelsLine: a label-only line advances pc too.
ParseLabelsLine_AlwaysAdvance(st, tokens) ==
  IF tokens = <<>> THEN st
  ELSE IF EndsWithColon(Tok(tokens, 0))
    THEN [pc |-> st.pc + 4,
          labels |-> Insert(st.labels, StripSuffix(Tok(tokens, 0)), st.pc)]
  ELSE [st EXCEPT !.pc = st.pc + 4]

\* Mutant of ParseLabelsLine: the first definition of a name is kept.
ParseLabelsLine_KeepFirst(st, tokens) ==
  IF tokens = <<>> THEN st
  ELSE IF EndsWithColon(Tok(tokens, 0))
    THEN [pc |-> IF Len(tokens) > 1 THEN st.pc + 4 ELSE st.pc,
          labels |-> IF StripSuffix(Tok(tokens, 0)) \in DOMAIN st.labels
                       THEN st.labels
                       ELSE Insert(st.labels, StripSuffix(Tok(tokens, 0)), st.pc)]
  ELSE [st EXCEPT !.pc = st.pc + 4]

\* Mutant of ParseLabelsLine: pc advances by 4 per word the line expands to.
ParseLabelsLine_Expanding(st, tokens) ==
  IF tokens = <<>> THEN st
  ELSE IF EndsWithColon(Tok(tokens, 0))
    THEN [pc |-> IF Len(tokens) > 1
                   THEN st.pc + 4 * Len(transform_psuedo_ir(Tail(tokens)).val)
                   ELSE st.pc,
          labels |-> Insert(st.labels, StripSuffix(Tok(tokens, 0)), st.pc)]
  ELSE [st EXCEPT !.pc = st.pc + 4 * Len(transform_psuedo_ir(tokens).val)]

\* The body of parse_labels' loop for one line: st is (pc, labels) before it.
ParseLabelsLine(st, tokens) ==
  IF tokens = <<>> THEN st
  ELSE IF EndsWithColon(Tok(tokens, 0))
    THEN [pc |-> IF Len(tokens) > 1 THEN st.pc + 4 ELSE st.pc,
          labels |-> Insert(st.labels, StripSuffix(Tok(tokens, 0)), st.pc)]
  ELSE [st EXCEPT !.pc = st.pc + 4]

RECURSIVE ParseLabelsUpTo(_, _)
\* parse_labels' (pc, labels) after the first n lines of the program.
ParseLabelsUpTo(lines, n) ==
  IF n = 0 THEN [pc |-> 0, labels |-> EmptyLabels]
  ELSE ParseLabelsLine(ParseLabelsUpTo(lines, n - 1), lines[n])

\* parse_labels(program)
parse_labels(lines) == ParseLabelsUpTo(lines, Len(lines)).labels

\* ---------------------------------------------------------------- the inputs

\* The source lines programs are built from, as token sequences.
Lines ==
  { <<>>,
    <<"loop:">>,
    <<"end:">>,
    <<"addi", "x1", "x1", "-1">>,
    <<"bne", "x1", "x0", "loop">>,
    <<"loop:", "addi", "x1", "x0", "2047">>,
    <<"addi", "x1", "x0", "2048">>,
    <<"jal", "x1", "end">>,
    <<"call", "loop">>,
    <<"nop">>,
    <<"sw", "x1", "x2", "4">>,
    <<"sw", "x1", "4", "x2">>,
    <<"foo", "x1">>,
    <<"end:", "lw", "x1", "4", "x2">>,
    <<"add", "x1">>,
    <<"loop:", "add", "x1", "x2", "x0", "x1">> }

\* Programs of one to MaxLines lines.
Programs == UNION {[1..n -> Lines] : n \in 1..MaxLines}

\* The tokens single lines are built from in SpecIr.
Vocab == {"loop:", "addi", "x1", "5", "nop"}

\* One-line programs whose line is any sequence of up to MaxTokens tokens.
OneLinePrograms == {<<l>> : l \in UNION {[1..n -> Vocab] : n \in 0..MaxTokens}}

\* ------------------------------------------------------------ assemble_program

VARIABLES program, phase, labels, pc, prog, i, last, result

vars == <<program, phase, labels, pc, prog, i, last, result>>

\* No assemble_ir call made yet.
NoCall == IrResult("none", "none", <<>>, 0, <<>>)

\* assemble_program has not returned.
NoResult == [kind |-> "none", err |-> "none", words |-> <<>>]

\* The locals of assemble_program on entry.
Start ==
  /\ phase = "start"
  /\ labels = EmptyLabels
  /\ pc = 0
  /\ prog = <<>>
  /\ i = 1
  /\ last = NoCall
  /\ result = NoResult

Init == program \in Programs /\ Start

InitIr == program \in OneLinePrograms /\ Start

\* let labels = parse_labels(program);
ParseLabelsCall ==
  /\ phase = "start"
  /\ labels' = parse_labels(program)
  /\ phase' = "lines"
  /\ UNCHANGED <<program, pc, prog, i, last, result>>

\* The assemble_ir call of the current iteration.
Call == assemble_ir(program[i], labels, pc)

\* One iteration of the loop whose assemble_ir call returns Ok: the words are
\* pushed onto prog.
LineOk(r) ==
  /\ r.status = "ok"
  /\ prog' = prog \o r.words
  /\ pc' = r.pc
  /\ last' = r
  /\ i' = i + 1
  /\ UNCHANGED <<program, phase, labels, result>>

\* Mutant of LineErr: the loop is left and the words so far are returned.
LineErr_Break(r) ==
  /\ r.status = "err"
  /\ pc' = r.pc
  /\ last' = r
  /\ result' = [kind |-> "Ok", err |-> "none", words |-> prog]
  /\ phase' = "ok"
  /\ UNCHANGED <<program, labels, prog, i>>

\* The iteration whose assemble_ir call returns Err(why): return Err(why).
LineErr(r) ==
  /\ r.status = "err"
  /\ pc' = r.pc
  /\ last' = r
  /\ result' = [kind |-> "Err", err |-> r.err, words |-> <<>>]
  /\ phase' = "err"
  /\ UNCHANGED <<program, labels, prog, i>>

\* The iteration whose assemble_ir call indexes past its tokens: the thread
\* panics and assemble_program returns nothing.
LinePanic(r) ==
  /\ r.status = "panic"
  /\ pc' = r.pc
  /\ last' = r
  /\ phase' = "panic"
  /\ UNCHANGED <<program, labels, prog, i, result>>

AssembleLineOk == phase = "lines" /\ i <= Len(program) /\ LineOk(Call)

AssembleLineErr == phase = "lines" /\ i <= Len(program) /\ LineErr(Call)

AssembleLinePanic == phase = "lines" /\ i <= Len(program) /\ LinePanic(Call)

\* Ok(prog) after the last line.
Return ==
  /\ phase = "lines"
  /\ i > Len(program)
  /\ result' = [kind |-> "Ok", err |-> "none", words |-> prog]
  /\ phase' = "ok"
  /\ UNCHANGED <<program, labels, pc, prog, i, last>>

Next ==
  \/ ParseLabelsCall
  \/ AssembleLineOk
  \/ AssembleLineErr
  \/ AssembleLinePanic
  \/ Return

\* assemble_program on programs built from Lines.
Spec == Init /\ [][Next]_vars

\* assemble_program on one line of arbitrary tokens.
SpecIr == InitIr /\ [][Next]_vars

\* ------------------------------------------------- vocabulary of the claims

\* The line defines a label: its first token ends with ':'.
IsLabelDef(tokens) == tokens # <<>> /\ EndsWithColon(Tok(tokens, 0))

\* The label name line k defines.
NameAt(k) == StripSuffix(Tok(program[k], 0))

\* The line holds an instruction: it is neither blank nor a lone label.
InstrBearing(tokens) == tokens # <<>> /\ ~(Len(tokens) = 1 /\ IsLabelDef(tokens))

\* The lines before line k that hold an instruction.
InstrBefore(k) == {m \in 1..(k - 1) : InstrBearing(program[m])}

\* The number of words the instruction of a line expands to.
WordsOf(tokens) ==
  IF InstrBearing(tokens) THEN Len(transform_psuedo_ir(StripLabel(tokens)).val) ELSE 0

RECURSIVE ExtraWords(_)
\* The words the lines before line k emit beyond one per instruction.
ExtraWords(k) ==
  IF k <= 1 THEN 0
  ELSE ExtraWords(k - 1)
       + (IF InstrBearing(program[k - 1]) THEN WordsOf(program[k - 1]) - 1 ELSE 0)

\* The lines that define the label name.
DefsOf(name) == {k \in 1..Len(program) : IsLabelDef(program[k]) /\ NameAt(k) = name}

\* The last line that defines the label name.
LastDef(name) == CHOOSE k \in DefsOf(name) : \A m \in DefsOf(name) : m <= k

\* The line the latest assemble_ir call was made on (0 before the first call).
LastLine == IF last.status = "ok" THEN i - 1 ELSE IF last.status = "none" THEN 0 ELSE i

\* The latest call encoded, or tried to encode, an instruction.
Encoding == last.trace # <<>>

\* The latest call's line is the first instruction at or after line k.
FirstInstrFrom(k) ==
  /\ Encoding
  /\ k \in 1..LastLine
  /\ \A m \in k..(LastLine - 1) : ~InstrBearing(program[m])

\* The byte address of the n-th word of the latest call in the output.
AddrOfWord(n) ==
  IF last.status = "ok" THEN 4 * (Len(prog) - Len(last.words) + n - 1)
  ELSE 4 * (Len(prog) + n - 1)

\* The operand token the immediate of entry e is read from.
ImmTok(e) == Tok(e.tokens, ImmIndex(e.format, e.opcode))

\* ------------------------------------------------------------------- claims

\* C1: assemble_program is all-or-nothing.  Lines are handed to assemble_ir in
\* source order and the loop moves on only past a line that returned Ok; the
\* first Err ends the call with that line's error and no words, whatever was
\* encoded before, and no later line is processed; Ok(prog) is returned only
\* after the last line.
AllOrNothing ==
  [][ /\ phase \in {"start", "lines"}
      /\ i' # i =>
           /\ i' = i + 1
           /\ last' = assemble_ir(program[i], labels, pc)
           /\ last'.status = "ok"
           /\ phase' = "lines"
      /\ phase' = "err" =>
           /\ i <= Len(program)
           /\ i' = i
           /\ last' = assemble_ir(program[i], labels, pc)
           /\ last'.status = "err"
           /\ result' = [kind |-> "Err", err |-> last'.err, words |-> <<>>]
      /\ phase' = "ok" =>
           /\ i > Len(program)
           /\ last.status = "ok"
           /\ result' = [kind |-> "Ok", err |-> "none", words |-> prog]
      /\ phase' \notin {"err", "ok"} => result' = NoResult
    ]_vars

\* C1 witness: a line fails after earlier lines were encoded and before the
\* last line; nothing is returned but the error.
AllOrNothingWitness ==
  /\ phase = "err"
  /\ prog # <<>>
  /\ i < Len(program)
  /\ result.kind = "Err"
  /\ result.words = <<>>

\* C2: a line of six or more tokens, the label token counted, makes
\* assemble_ir return TooManyTokensError before anything else: no lookup is
\* made, no word is emitted and pc is unchanged.
TooManyTokensFirst ==
  [][ (phase = "lines" /\ i <= Len(program) /\ Len(program[i]) >= 6) =>
        /\ phase' = "err"
        /\ result' = [kind |-> "Err", err |-> "TooManyTokensError", words |-> <<>>]
        /\ last'.trace = <<>>
        /\ last'.words = <<>>
        /\ pc' = pc
        /\ prog' = prog
    ]_vars

\* C2 witness: a labelled line of six tokens whose five tokens after the label
\* would assemble has been rejected.
TooManyTokensWitness ==
  /\ phase = "err"
  /\ program[i] = <<"loop:", "addi", "x1", "x1", "5", "5">>
  /\ result.err = "TooManyTokensError"

\* C3: when every instruction before it encoded to one word, the address
\* parse_labels holds for a label defined once equals the pc at which the
\* first instruction at or after the label's line is encoded.
PassesAgree ==
  \A k \in 1..Len(program) :
    ( /\ FirstInstrFrom(k)
      /\ IsLabelDef(program[k])
      /\ Cardinality(DefsOf(NameAt(k))) = 1
      /\ \A m \in InstrBefore(LastLine) : WordsOf(program[m]) = 1 )
    => labels[NameAt(k)] = last.trace[1].pc

\* C3 witness: an instruction on a later line than its label, after another
\* instruction, is encoded at the label's address.
PassesAgreeWitness ==
  \E k \in 1..Len(program) :
    /\ FirstInstrFrom(k)
    /\ IsLabelDef(program[k])
    /\ Cardinality(DefsOf(NameAt(k))) = 1
    /\ \A m \in InstrBefore(LastLine) : WordsOf(program[m]) = 1
    /\ k < LastLine
    /\ InstrBefore(k) # {}
    /\ last.status = "ok"
    /\ labels[NameAt(k)] = 4

\* C4: in the encoding pass pc starts at 0, never decreases, is 4 times the
\* number of words in the output after every line, advances by 4 per word
\* emitted, and is unchanged by blank lines and lone labels.
PcTracksWords ==
  /\ pc = 0
  /\ [][ /\ pc' >= pc
         /\ phase' \in {"lines", "ok"} => pc' = 4 * Len(prog')
         /\ i' = i + 1 =>
              /\ Len(prog') = Len(prog) + Len(last'.words)
              /\ pc' = pc + 4 * Len(last'.words)
              /\ Len(last'.words) = WordsOf(program[i])
              /\ ~InstrBearing(program[i]) => pc' = pc
       ]_vars

\* C4 witness: a two-word line, a one-word line and a line without an
\* instruction have been processed.
PcTracksWordsWitness ==
  /\ phase = "ok"
  /\ pc = 12
  /\ \E m \in 1..Len(program) : ~InstrBearing(program[m])
  /\ \E m \in 1..Len(program) : WordsOf(program[m]) = 2

\* C5: a branch or jump whose immediate operand is a label of the table gets
\* label address minus the address of that very word, also for the second
\* word of an expansion; the bne after a one-instruction loop body gets -4.
PcRelativeImm ==
  /\ \A n \in 1..Len(last.trace) :
       ( /\ last.trace[n].hasImm
         /\ last.trace[n].format \in {Btype, Jtype}
         /\ ImmTok(last.trace[n]) \in DOMAIN labels )
       => last.trace[n].imm = labels[ImmTok(last.trace[n])] - AddrOfWord(n)
  /\ ( /\ program = << <<"loop:">>, <<"addi", "x1", "x1", "-1">>,
                       <<"bne", "x1", "x0", "loop">> >>
       /\ LastLine = 3 )
     => (last.status = "ok" /\ last.trace[1].imm = -4)

\* C5 witness: the loop of the example has been assembled.
PcRelativeImmWitness ==
  /\ program = << <<"loop:">>, <<"addi", "x1", "x1", "-1">>,
                  <<"bne", "x1", "x0", "loop">> >>
  /\ phase = "ok"
  /\ last.trace[1].format = Btype
  /\ last.trace[1].imm = -4

\* C6: an I-type immediate of 2047 encodes, 2048 is an immediate-range error,
\* and no I-type word comes from an immediate outside -2048..2047.
ITypeImmInRange ==
  \A n \in 1..Len(last.trace) :
    (last.trace[n].format = Itype /\ last.trace[n].hasImm) =>
      IF last.trace[n].imm \in (-2048)..2047
        THEN last.trace[n].status = "ok"
        ELSE last.trace[n].status = "err" /\ last.trace[n].err = "ImmediateRangeError"

\* C7: the address parse_labels records for a label on line k is the pc at
\* which the label's instruction is encoded less 4 for every word that the
\* lines before k emit beyond one per instruction; the table holds that
\* address when k is the last definition of the name.
LabelsLagExpansion ==
  \A k \in 1..Len(program) :
    (FirstInstrFrom(k) /\ IsLabelDef(program[k])) =>
      /\ ParseLabelsUpTo(program, k).labels[NameAt(k)]
           = last.trace[1].pc - 4 * ExtraWords(k)
      /\ k = LastDef(NameAt(k)) =>
           labels[NameAt(k)] = last.trace[1].pc - 4 * ExtraWords(k)

\* C7 witness: a label defined after a two-word line is held at an address 4
\* below the pc of its instruction.
LabelsLagExpansionWitness ==
  \E k \in 1..Len(program) :
    /\ FirstInstrFrom(k)
    /\ IsLabelDef(program[k])
    /\ k = LastDef(NameAt(k))
    /\ ExtraWords(k) = 1
    /\ labels[NameAt(k)] = last.trace[1].pc - 4

\* C8: no two fields of one instruction are read from the same token.
DistinctFieldTokens ==
  \A n \in 1..Len(last.trace) :
    \A a, b \in 1..Len(last.trace[n].reads) :
      a # b => last.trace[n].reads[a].idx # last.trace[n].reads[b].idx

\* C9: assemble_ir ends in Ok or a structured error and never indexes a token
\* at or beyond the length of the instruction's tokens.
NoReadPastTokens ==
  /\ phase # "panic"
  /\ \A n \in 1..Len(last.trace) :
       \A a \in 1..Len(last.trace[n].reads) :
         last.trace[n].reads[a].idx < Len(last.trace[n].tokens)

\* C10: parse_labels always yields a table with one address per defined
\* name, the one of the name's last definition, and every reference to the
\* name resolves against that address.
LastDefinitionWins ==
  phase # "start" =>
    /\ DOMAIN labels = {NameAt(k) : k \in {m \in 1..Len(program) : IsLabelDef(program[m])}}
    /\ \A name \in DOMAIN labels :
         labels[name] = 4 * Cardinality(InstrBefore(LastDef(name)))
    /\ \A n \in 1..Len(last.trace) :
         (last.trace[n].hasImm /\ ImmTok(last.trace[n]) \in DOMAIN labels) =>
           last.trace[n].imm
             = 4 * Cardinality(InstrBefore(LastDef(ImmTok(last.trace[n]))))
               - last.trace[n].pc

\* C10 witness: a branch between two definitions of its label has been
\* resolved against the second one.
LastDefinitionWinsWitness ==
  /\ Encoding
  /\ last.trace[1].hasImm
  /\ ImmTok(last.trace[1]) \in DOMAIN labels
  /\ \E k \in DefsOf(ImmTok(last.trace[1])) : k < LastLine
  /\ LastDef(ImmTok(last.trace[1])) > LastLine
  /\ last.trace[1].imm > 0

====
